---- MODULE Spec2Model ----
(***************************************************************************)
(* FileChangeHandler (src/analysis/file_change_handler.ts): the component  *)
(* that turns the editor's open / change / close events into add / change  *)
(* / remove content overlays passed to Analyzer.analysisUpdateContent.     *)
(*                                                                         *)
(* The editor (vs.workspace), the window (vs.window), the configuration    *)
(* and the analyzer are the handler's environment.  The handler's three    *)
(* event methods are public: the model delivers an event for any document  *)
(* at any time, also a change or a close for a document whose open the     *)
(* handler never saw.                                                      *)
(*                                                                         *)
(* The module also models the test helpers (test/helpers.ts): the deferred *)
(* functions and their after-each hook, waitFor, and the two helpers that  *)
(* await analysis rounds, activate and waitForNextAnalysis; and, from the  *)
(* design document, the analysis-round tokens and the request correlator   *)
(* of the analyzer's session.  Each part has its own variables and its own *)
(* specification; the other parts stay at rest in it.                      *)
(***************************************************************************)
EXTENDS Integers, Sequences, FiniteSets, TLC

\* ------------------------------------------------------------------ bounds
\* Longest document text the editor holds.
MaxLen == 2
\* Longest replacement text of one change record.
MaxInsert == 1
\* Most change records in one change event.
MaxChanges == 2
\* Most handler invocations recorded in one run.
MaxEvents == 3

\* ------------------------------------------------------------- environment
Docs == {"main", "ext", "notes"}

Chars == {"a", "b"}

\* All texts over Chars of length at most n.
TextsUpTo(n) == UNION {[1..k -> Chars] : k \in 0..n}

\* fsPath(uri): the file system path of a document's uri.
fsPath(uri) ==
    CASE uri = "main"  -> "/ws/bin/main.dart"
      [] uri = "ext"   -> "/pkg/lib/ext.dart"
      [] uri = "notes" -> "/home/notes.txt"

\* util.isAnalyzable: the external predicate on a document's kind and location.
isAnalyzable(document) == document.uri \in {"main", "ext"}

\* util.isWithinWorkspace: whether a path lies under a workspace folder.
isWithinWorkspace(filePath) == filePath \in {"/ws/bin/main.dart"}

VARIABLES
    textDocuments,    \* vs.workspace.textDocuments: the documents open in the editor
    text,             \* document -> its current text (document.getText())
    warnSetting,      \* config.warnWhenEditingFilesOutsideWorkspace
    pc,               \* the handler's life: "new", "ctor", "ready", "disposed"
    todo,             \* already-open documents the constructor has still to handle
    listening,        \* the three listeners are registered (this.disposables)
    filesWarnedAbout, \* this.filesWarnedAbout
    shown,            \* vs.window.showWarningMessage calls, by file path, in order
    sent,             \* requests passed to analyzer.analysisUpdateContent, in order
    inFlight,         \* indices in sent of the requests not yet answered
    handled,          \* log of the handler's event-method invocations, in order
    text0             \* document -> its text when the handler was constructed

handlerVars == <<textDocuments, text, warnSetting, pc, todo, listening, filesWarnedAbout,
                 shown, sent, inFlight, handled, text0>>

\* The deferred functions of the test helpers (test/helpers.ts).
VARIABLES
    deferredItems,       \* const deferredItems: the callbacks passed to defer
    deferredToLastItems, \* const deferredToLastItems: those passed to deferUntilLast
    hookPc,              \* the "run deferred functions" hook: "idle", "running", "done"
    queue,               \* the callbacks the running hook's for loop has still to take
    firstError,          \* let firstError
    hookResult,          \* how the hook last ended: the value it threw, if any
    ran,                 \* log: the callbacks the current (or last) hook run has run
    registered,          \* log: the registrations since the last hook run ended
    callbackCount,       \* log: callbacks registered so far
    hooksDone            \* log: hook runs ended so far

deferVars == <<deferredItems, deferredToLastItems, hookPc, queue, firstError, hookResult,
               ran, registered, callbackCount, hooksDone>>

\* One call of waitFor (test/helpers.ts).
VARIABLES
    milliseconds,    \* the parameter milliseconds
    throwOnFailure,  \* the parameter throwOnFailure
    timeRemaining,   \* let timeRemaining
    waitPc,          \* where the call is: "loop", "sleeping", "returned", "threw"
    waitResult,      \* how the call ended
    answers          \* log: what each call of action() gave, in order

waitVars == <<milliseconds, throwOnFailure, timeRemaining, waitPc, waitResult, answers>>

\* The analysis rounds of the server, the tokens of extApi.currentAnalysis()
\* and extApi.nextAnalysis(), and the two helpers that await them: activate
\* and waitForNextAnalysis (test/helpers.ts).
VARIABLES
    isAnalyzing,  \* the server is busy: a round has started and not finished
    started,      \* analysis-started events so far
    finished,     \* analysis-finished events so far
    tokens,       \* the tokens handed out, in order
    acPc,         \* activate: "off", "awaitInitial", "delay", "awaitCurrent", "ready"
    acToken,      \* the token activate awaits (index in tokens, 0: none)
    wnPc,         \* waitForNextAnalysis: "idle", "called", "acting", "awaitNext",
                  \* "returned", "timedOut"
    wnToken,      \* const nextAnalysis (index in tokens, 0: none)
    wnCalled,     \* log: the server's state when waitForNextAnalysis was called
    wnCalls       \* log: calls of waitForNextAnalysis so far

analysisVars == <<isAnalyzing, started, finished, tokens, acPc, acToken, wnPc, wnToken,
                  wnCalled, wnCalls>>

\* The request correlator of the analyzer's session.
VARIABLES
    transport,  \* the stream to the server: "open" or "closed"
    nextId,     \* the correlation id the next request gets
    pending,    \* the ids of the pending requests
    responses,  \* responses the server has written and the client has not read
    answered,   \* the ids the server has written a response for
    settled,    \* log: the settlements, in order, each with the request's id
    ignored     \* log: the responses read and not processed

requestVars == <<transport, nextId, pending, responses, answered, settled, ignored>>

\* One call of tryFor (test/helpers.ts).
VARIABLES
    tryMilliseconds,  \* the parameter milliseconds
    tryRemaining,     \* let timeRemaining
    tryPc,            \* where the call is: "loop", "sleeping", "returned", "threw"
    tryResult,        \* how the call ended
    attempts          \* log: the invocations of action, in order

tryVars == <<tryMilliseconds, tryRemaining, tryPc, tryResult, attempts>>

\* One call of withTimeout (test/helpers.ts).
VARIABLES
    seconds,       \* the parameter seconds (Unset: undefined)
    promiseState,  \* the promise passed in: "pending", "resolved", "rejected"
    timer,         \* the timer of timeoutIn: its state ("none", "armed", "fired")
                   \* and the message and seconds its callback holds
    clock,         \* seconds passed since the call
    race,          \* the promise withTimeout returns: its state and value
    reactions      \* log: the settlements offered to the returned promise, in order

raceVars == <<seconds, promiseState, timer, clock, race, reactions>>

\* The two timed helpers.
timingVars == <<tryVars, raceVars>>

vars == <<handlerVars, deferVars, waitVars, analysisVars, requestVars, timingVars>>

\* What the steps of tryFor leave alone.
tryOthers == <<handlerVars, deferVars, waitVars, analysisVars, requestVars, raceVars>>

\* What the steps of withTimeout leave alone.
raceOthers == <<handlerVars, deferVars, waitVars, analysisVars, requestVars, tryVars>>

\* What the steps of the handler and its editor leave alone.
helperVars == <<deferVars, waitVars, analysisVars, requestVars, timingVars>>

\* What the steps of the deferred functions leave alone.
deferOthers == <<handlerVars, waitVars, analysisVars, requestVars, timingVars>>

\* What the steps of waitFor leave alone.
waitOthers == <<handlerVars, deferVars, analysisVars, requestVars, timingVars>>

\* What the steps of the analysis rounds and their waiters leave alone.
analysisOthers == <<handlerVars, deferVars, waitVars, requestVars, timingVars>>

\* What the steps of the request correlator leave alone.
requestOthers == <<handlerVars, deferVars, waitVars, analysisVars, timingVars>>

\* JavaScript values a callback may throw: undefined stands for the values
\* that are falsy, ErrorFrom(id) for the Error object thrown by callback id.
Undefined == [type |-> "undefined", of |-> 0]

ErrorFrom(id) == [type |-> "Error", of |-> id]

\* ToBoolean(value)
Truthy(value) == value.type # "undefined"

\* The hook has not run.
NoResult == [threw |-> FALSE, error |-> Undefined]

\* The helpers with nothing registered and no hook running.
NoDeferred ==
    /\ deferredItems = <<>>
    /\ deferredToLastItems = <<>>
    /\ hookPc = "idle"
    /\ queue = <<>>
    /\ firstError = Undefined
    /\ hookResult = NoResult
    /\ ran = <<>>
    /\ registered = <<>>
    /\ callbackCount = 0
    /\ hooksDone = 0

\* No call of waitFor under way.
NoWaiting ==
    /\ milliseconds = 0
    /\ throwOnFailure = FALSE
    /\ timeRemaining = 0
    /\ waitPc = "returned"
    /\ waitResult = "none"
    /\ answers = <<>>

\* An idle server that has run no round, and nobody waiting for it.
NoAnalysis ==
    /\ isAnalyzing = FALSE
    /\ started = 0
    /\ finished = 0
    /\ tokens = <<>>
    /\ acPc = "off"
    /\ acToken = 0
    /\ wnPc = "idle"
    /\ wnToken = 0
    /\ wnCalled = [started |-> 0, busy |-> FALSE]
    /\ wnCalls = 0

\* An open session with no request sent.
NoRequests ==
    /\ transport = "open"
    /\ nextId = 1
    /\ pending = {}
    /\ responses = {}
    /\ answered = {}
    /\ settled = <<>>
    /\ ignored = {}

\* The parameter seconds left out.
Unset == 0 - 1

\* What a promise is settled with: the value or error of the promise passed
\* in, or the Error of timeoutIn with its text `${msg} within ${seconds}s`.
Value(kind, msg, secs) == [kind |-> kind, msg |-> msg, secs |-> secs]

\* A promise that is not settled.
Pending == [state |-> "pending", value |-> Value("none", "", 0)]

\* No timer set.
NoTimer == [state |-> "none", msg |-> "", secs |-> 0]

\* How a call of tryFor stands: not ended, returned, or thrown the error of
\* its invocation number error.
TryResult(state, error) == [state |-> state, error |-> error]

\* No call of tryFor under way.
NoTrying ==
    /\ tryMilliseconds = 0
    /\ tryRemaining = 0
    /\ tryPc = "returned"
    /\ tryResult = TryResult("none", 0)
    /\ attempts = <<>>

\* No call of withTimeout under way.
NoRace ==
    /\ seconds = Unset
    /\ promiseState = "pending"
    /\ timer = NoTimer
    /\ clock = 0
    /\ race = Pending
    /\ reactions = <<>>

NoTiming == NoTrying /\ NoRace

\* The test helpers and the session at rest.
NoHelpers == NoDeferred /\ NoWaiting /\ NoAnalysis /\ NoRequests /\ NoTiming

\* The handler with no editor behind it, for the specifications of the helpers.
NoHandler ==
    /\ textDocuments = {}
    /\ text = [uri \in Docs |-> <<>>]
    /\ text0 = text
    /\ warnSetting = FALSE
    /\ pc = "new"
    /\ todo = {}
    /\ listening = FALSE
    /\ filesWarnedAbout = {}
    /\ shown = <<>>
    /\ sent = <<>>
    /\ inFlight = {}
    /\ handled = <<>>

\* The vs.TextDocument a listener receives: its uri and what getText() returns.
TextDocument(uri, content) == [uri |-> uri, getText |-> content]

\* --------------------------------------------------------- editor semantics
\* One vs.TextDocumentContentChangeEvent against a text t.
ChangeRecords(t) ==
    {c \in [rangeOffset : 0..Len(t), rangeLength : 0..Len(t), text : TextsUpTo(MaxInsert)] :
        c.rangeOffset + c.rangeLength <= Len(t)}

\* The editor reports the records of one event against the pre-edit text, from
\* the end of the document to its start, none overlapping another.
Descending(cs) ==
    \A i \in 1..Len(cs) : \A j \in 1..Len(cs) :
        i < j => cs[j].rangeOffset + cs[j].rangeLength <= cs[i].rangeOffset

RECURSIVE Reverse(_)
Reverse(s) == IF s = <<>> THEN <<>> ELSE Append(Reverse(Tail(s)), Head(s))

\* The text after the editor replaced every range of asc (ascending, against
\* the same pre-edit text t) from offset pos on.
RECURSIVE Splice(_, _, _)
Splice(t, asc, pos) ==
    IF asc = <<>> THEN SubSeq(t, pos + 1, Len(t))
    ELSE LET c == Head(asc)
         IN  SubSeq(t, pos + 1, c.rangeOffset) \o c.text
                \o Splice(t, Tail(asc), c.rangeOffset + c.rangeLength)

\* The editor's post-edit text.
EditorApply(t, contentChanges) == Splice(t, Reverse(contentChanges), 0)

\* Descending lists of at most n records against t.
RECURSIVE DescendingLists(_, _)
DescendingLists(t, n) ==
    IF n = 0 THEN {<<>>}
    ELSE LET shorter == DescendingLists(t, n - 1)
         IN  shorter \cup
             {cs \in {Append(x, c) : x \in {y \in shorter : Len(y) = n - 1},
                                     c \in ChangeRecords(t)} : Descending(cs)}

\* Every contentChanges list the editor can report for a document whose text
\* is t (the edited text stays within MaxLen).
ChangeLists(t) ==
    {cs \in DescendingLists(t, MaxChanges) : Len(EditorApply(t, cs)) <= MaxLen}

ChangeRecord(rangeOffset, rangeLength, inserted) ==
    [rangeOffset |-> rangeOffset, rangeLength |-> rangeLength, text |-> inserted]

\* The contentChanges lists of everyday editing: a metadata-only event (no
\* record), typing "b" at the end, backspace at the end, and backspace at two
\* cursors at once (after the last and after the first character).
Keystrokes(t) ==
    {<<>>}
    \cup {<<ChangeRecord(Len(t), 0, <<c>>)>> : c \in {x \in {"b"} : Len(t) < MaxLen}}
    \cup {<<ChangeRecord(Len(t) - 1, 1, <<>>)>> : k \in {x \in {1} : Len(t) >= 1}}
    \cup {<<ChangeRecord(Len(t) - 1, 1, <<>>), ChangeRecord(0, 1, <<>>)>> :
            k \in {x \in {1} : Len(t) >= 2}}

\* ----------------------------------------------------------------- analyzer
\* analyzer.analysisUpdateContent(request): the request goes out at once and
\* is answered later.
analysisUpdateContent(request) ==
    /\ sent' = Append(sent, request)
    /\ inFlight' = inFlight \cup {Len(sent) + 1}

\* The server's answer to request i arrives; the server reads the requests
\* from one stream and answers content updates in the order it reads them.
Respond(i) ==
    /\ i \in inFlight
    /\ \A j \in inFlight : i <= j
    /\ inFlight' = inFlight \ {i}
    /\ UNCHANGED <<textDocuments, text, warnSetting, pc, todo, listening,
                   filesWarnedAbout, shown, sent, handled, text0>>

\* The result of an edit that does not fit the content it is applied to.
Invalid == <<"invalid">>

\* The server applies one SourceEdit to a content.
ApplyEdit(content, edit) ==
    IF content = Invalid \/ edit.offset + edit.length > Len(content)
    THEN Invalid
    ELSE SubSeq(content, 1, edit.offset) \o edit.replacement
            \o SubSeq(content, edit.offset + edit.length + 1, Len(content))

\* The server applies the edits of one change overlay one after the other,
\* each to the result of the one before.
RECURSIVE ApplySequence(_, _)
ApplySequence(content, edits) ==
    IF edits = <<>> THEN content
    ELSE ApplySequence(ApplyEdit(content, Head(edits)), Tail(edits))

\* The content after the change overlays of requests, in order, for filePath.
RECURSIVE ReplayChanges(_, _, _)
ReplayChanges(content, requests, filePath) ==
    IF requests = <<>> THEN content
    ELSE LET overlay == Head(requests).files[filePath]
         IN  ReplayChanges(
                 IF overlay.type = "change" THEN ApplySequence(content, overlay.edits)
                 ELSE content,
                 Tail(requests), filePath)

\* ------------------------------------------------------------------ handler
\* convertChange with offset and length taken from each other's field.
convertChange_Swapped(document, change) ==
    [id |-> "",
     length |-> change.rangeOffset,
     offset |-> change.rangeLength,
     replacement |-> change.text]

convertChange(document, change) ==
    [id |-> "",
     length |-> change.rangeLength,
     offset |-> change.rangeOffset,
     replacement |-> change.text]

\* The add overlay without the document's text.
AddContentOverlay_NoContent(content) == [type |-> "add", content |-> <<>>]

AddContentOverlay(content) == [type |-> "add", content |-> content]

\* The change overlay with its edits in the opposite order.
ChangeContentOverlay_Reversed(edits) == [type |-> "change", edits |-> Reverse(edits)]

ChangeContentOverlay(edits) == [type |-> "change", edits |-> edits]

RemoveContentOverlay == [type |-> "remove"]

\* { files } with the single key filePath.
UpdateContentRequest(filePath, overlay) == [files |-> (filePath :> overlay)]

\* onDidOpenTextDocument without its isAnalyzable check.
onDidOpenTextDocument_NoFilter(document) ==
    /\ analysisUpdateContent(
            UpdateContentRequest(fsPath(document.uri), AddContentOverlay(document.getText)))
    /\ UNCHANGED <<filesWarnedAbout, shown>>

onDidOpenTextDocument(document) ==
    /\ IF ~isAnalyzable(document)
       THEN UNCHANGED <<sent, inFlight>>
       ELSE analysisUpdateContent(
                UpdateContentRequest(fsPath(document.uri), AddContentOverlay(document.getText)))
    /\ UNCHANGED <<filesWarnedAbout, shown>>

\* The edits of a change event, in the records' order.
Edits(document, contentChanges) ==
    [i \in 1..Len(contentChanges) |-> convertChange(document, contentChanges[i])]

\* onDidChangeTextDocument holding back the overlay of a document that still
\* has a request in flight.
onDidChangeTextDocument_DropsWhenBusy(document, contentChanges) ==
    IF ~isAnalyzable(document) \/ Len(contentChanges) = 0
          \/ \E k \in inFlight : fsPath(document.uri) \in DOMAIN sent[k].files
    THEN UNCHANGED <<sent, inFlight, filesWarnedAbout, shown>>
    ELSE /\ UNCHANGED <<filesWarnedAbout, shown>>
         /\ analysisUpdateContent(
                UpdateContentRequest(fsPath(document.uri),
                    ChangeContentOverlay(Edits(document, contentChanges))))

\* onDidChangeTextDocument with the outside-workspace warning placed before
\* the check for an empty contentChanges.
onDidChangeTextDocument_WarnsFirst(document, contentChanges) ==
    IF ~isAnalyzable(document)
    THEN UNCHANGED <<sent, inFlight, filesWarnedAbout, shown>>
    ELSE LET filePath == fsPath(document.uri)
         IN  /\ IF warnSetting /\ filePath \notin filesWarnedAbout
                      /\ ~isWithinWorkspace(filePath)
                THEN /\ shown' = Append(shown, filePath)
                     /\ filesWarnedAbout' = filesWarnedAbout \cup {filePath}
                ELSE UNCHANGED <<shown, filesWarnedAbout>>
             /\ IF Len(contentChanges) = 0
                THEN UNCHANGED <<sent, inFlight>>
                ELSE analysisUpdateContent(
                        UpdateContentRequest(filePath,
                            ChangeContentOverlay(Edits(document, contentChanges))))

\* onDidChangeTextDocument without the filesWarnedAbout.has(filePath) test.
onDidChangeTextDocument_WarnsEveryTime(document, contentChanges) ==
    IF ~isAnalyzable(document)
    THEN UNCHANGED <<sent, inFlight, filesWarnedAbout, shown>>
    ELSE IF Len(contentChanges) = 0
    THEN UNCHANGED <<sent, inFlight, filesWarnedAbout, shown>>
    ELSE LET filePath == fsPath(document.uri)
         IN  /\ IF warnSetting /\ ~isWithinWorkspace(filePath)
                THEN /\ shown' = Append(shown, filePath)
                     /\ filesWarnedAbout' = filesWarnedAbout \cup {filePath}
                ELSE UNCHANGED <<shown, filesWarnedAbout>>
             /\ analysisUpdateContent(
                    UpdateContentRequest(filePath,
                        ChangeContentOverlay(Edits(document, contentChanges))))

onDidChangeTextDocument(document, contentChanges) ==
    IF ~isAnalyzable(document)
    THEN UNCHANGED <<sent, inFlight, filesWarnedAbout, shown>>
    ELSE IF Len(contentChanges) = 0
    THEN UNCHANGED <<sent, inFlight, filesWarnedAbout, shown>>
    ELSE LET filePath == fsPath(document.uri)
         IN  /\ IF warnSetting /\ filePath \notin filesWarnedAbout
                      /\ ~isWithinWorkspace(filePath)
                THEN /\ shown' = Append(shown, filePath)
                     /\ filesWarnedAbout' = filesWarnedAbout \cup {filePath}
                ELSE UNCHANGED <<shown, filesWarnedAbout>>
             /\ analysisUpdateContent(
                    UpdateContentRequest(filePath,
                        ChangeContentOverlay(Edits(document, contentChanges))))

\* onDidCloseTextDocument without its call of analysisUpdateContent.
onDidCloseTextDocument_NoUpdate(document) ==
    UNCHANGED <<sent, inFlight, filesWarnedAbout, shown>>

\* onDidCloseTextDocument removing only an overlay it has seen added.
onDidCloseTextDocument_OnlyIfAdded(document) ==
    /\ IF isAnalyzable(document)
            /\ \E k \in 1..Len(sent) :
                    /\ fsPath(document.uri) \in DOMAIN sent[k].files
                    /\ sent[k].files[fsPath(document.uri)].type = "add"
       THEN analysisUpdateContent(
                UpdateContentRequest(fsPath(document.uri), RemoveContentOverlay))
       ELSE UNCHANGED <<sent, inFlight>>
    /\ UNCHANGED <<filesWarnedAbout, shown>>

onDidCloseTextDocument(document) ==
    /\ IF ~isAnalyzable(document)
       THEN UNCHANGED <<sent, inFlight>>
       ELSE analysisUpdateContent(
                UpdateContentRequest(fsPath(document.uri), RemoveContentOverlay))
    /\ UNCHANGED <<filesWarnedAbout, shown>>

\* One entry of the invocation log.
Invocation(kind, document, contentChanges, via) ==
    [kind |-> kind, uri |-> document.uri, getText |-> document.getText,
     contentChanges |-> contentChanges, via |-> via]

\* new FileChangeHandler(analyzer): register the listeners, then take the
\* already-open documents.
Constructor ==
    /\ pc = "new"
    /\ pc' = "ctor"
    /\ listening' = TRUE
    /\ todo' = textDocuments
    /\ UNCHANGED <<textDocuments, text, warnSetting, filesWarnedAbout, shown, sent,
                   inFlight, handled, text0>>

\* HandleAlreadyOpen that takes the document off the list without passing it
\* to onDidOpenTextDocument.
HandleAlreadyOpen_Skips(uri) ==
    /\ pc = "ctor"
    /\ uri \in todo
    /\ todo' = todo \ {uri}
    /\ handled' = Append(handled, Invocation("open", TextDocument(uri, text[uri]), <<>>, "constructor"))
    /\ UNCHANGED <<textDocuments, text, warnSetting, pc, listening, text0,
                   filesWarnedAbout, shown, sent, inFlight>>

\* One round of textDocuments.forEach((td) => this.onDidOpenTextDocument(td)).
HandleAlreadyOpen(uri) ==
    /\ pc = "ctor"
    /\ uri \in todo
    /\ todo' = todo \ {uri}
    /\ LET td == TextDocument(uri, text[uri])
       IN  /\ onDidOpenTextDocument(td)
           /\ handled' = Append(handled, Invocation("open", td, <<>>, "constructor"))
    /\ UNCHANGED <<textDocuments, text, warnSetting, pc, listening, text0>>

ConstructorReturns ==
    /\ pc = "ctor"
    /\ todo = {}
    /\ pc' = "ready"
    /\ UNCHANGED <<textDocuments, text, warnSetting, todo, listening, filesWarnedAbout,
                   shown, sent, inFlight, handled, text0>>

dispose ==
    /\ pc = "ready"
    /\ pc' = "disposed"
    /\ listening' = FALSE
    /\ UNCHANGED <<textDocuments, text, warnSetting, todo, filesWarnedAbout, shown, sent,
                   inFlight, handled, text0>>

\* ------------------------------------------------------------ editor events
\* The editor runs listeners only between the handler's own steps.
Delivering == pc = "ready" /\ listening /\ Len(handled) < MaxEvents

DidOpen(uri) ==
    /\ Delivering
    /\ textDocuments' = textDocuments \cup {uri}
    /\ LET td == TextDocument(uri, text[uri])
       IN  /\ onDidOpenTextDocument(td)
           /\ handled' = Append(handled, Invocation("open", td, <<>>, "event"))
    /\ UNCHANGED <<text, warnSetting, pc, todo, listening, text0>>

\* The event carries the document as it is after the edit.
DidChange(uri, contentChanges) ==
    /\ Delivering
    /\ text' = [text EXCEPT ![uri] = EditorApply(text[uri], contentChanges)]
    /\ textDocuments' = textDocuments \cup {uri}
    /\ LET td == TextDocument(uri, EditorApply(text[uri], contentChanges))
       IN  /\ onDidChangeTextDocument(td, contentChanges)
           /\ handled' = Append(handled, Invocation("change", td, contentChanges, "event"))
    /\ UNCHANGED <<warnSetting, pc, todo, listening, text0>>

DidClose(uri) ==
    /\ Delivering
    /\ textDocuments' = textDocuments \ {uri}
    /\ LET td == TextDocument(uri, text[uri])
       IN  /\ onDidCloseTextDocument(td)
           /\ handled' = Append(handled, Invocation("close", td, <<>>, "event"))
    /\ UNCHANGED <<text, warnSetting, pc, todo, listening, text0>>

\* The user flips dart.warnWhenEditingFilesOutsideWorkspace.
DidChangeConfiguration ==
    /\ warnSetting' = ~warnSetting
    /\ UNCHANGED <<textDocuments, text, pc, todo, listening, filesWarnedAbout, shown,
                   sent, inFlight, handled, text0>>

\* ------------------------------------------------------------ specification
Init ==
    /\ textDocuments \in SUBSET Docs
    /\ text \in {[uri \in Docs |-> t] : t \in {<<>>, <<"a">>}}
    /\ text0 = text
    /\ warnSetting \in BOOLEAN
    /\ pc = "new"
    /\ todo = {}
    /\ listening = FALSE
    /\ filesWarnedAbout = {}
    /\ shown = <<>>
    /\ sent = <<>>
    /\ inFlight = {}
    /\ handled = <<>>
    /\ NoHelpers

Next ==
    \/ Constructor /\ UNCHANGED helperVars
    \/ \E uri \in Docs : HandleAlreadyOpen(uri) /\ UNCHANGED helperVars
    \/ ConstructorReturns /\ UNCHANGED helperVars
    \/ dispose /\ UNCHANGED helperVars
    \/ \E uri \in Docs : DidOpen(uri) /\ UNCHANGED helperVars
    \/ \E uri \in Docs : \E cs \in Keystrokes(text[uri]) :
           DidChange(uri, cs) /\ UNCHANGED helperVars
    \/ \E uri \in Docs : DidClose(uri) /\ UNCHANGED helperVars
    \/ DidChangeConfiguration /\ UNCHANGED helperVars
    \/ \E i \in inFlight : Respond(i) /\ UNCHANGED helperVars

Spec == Init /\ [][Next]_vars

\* One change event of any shape, delivered to a handler constructed in an
\* editor with no document open: the inputs of convertChange.
InitEdits ==
    /\ textDocuments = {}
    /\ text \in {[uri \in Docs |-> t] : t \in TextsUpTo(MaxLen)}
    /\ text0 = text
    /\ warnSetting \in BOOLEAN
    /\ pc = "ready"
    /\ todo = {}
    /\ listening = TRUE
    /\ filesWarnedAbout = {}
    /\ shown = <<>>
    /\ sent = <<>>
    /\ inFlight = {}
    /\ handled = <<>>
    /\ NoHelpers

NextEdits ==
    /\ handled = <<>>
    /\ \E uri \in Docs : \E cs \in ChangeLists(text[uri]) : DidChange(uri, cs)
    /\ UNCHANGED helperVars

SpecEdits == InitEdits /\ [][NextEdits]_vars

TypeOK ==
    /\ textDocuments \subseteq Docs
    /\ \A d \in Docs : Len(text[d]) <= MaxLen
    /\ inFlight \subseteq 1..Len(sent)
    /\ pc \in {"new", "ctor", "ready", "disposed"}

\* ------------------------------------------------------- reading the state
Analyzable == {uri \in Docs : isAnalyzable(TextDocument(uri, text[uri]))}

\* The requests of sent that carry an overlay for filePath, in order.
SentFor(filePath) == SelectSeq(sent, LAMBDA r : filePath \in DOMAIN r.files)

\* The overlay kinds passed for filePath, in order.
KindsSent(filePath) ==
    [i \in 1..Len(SentFor(filePath)) |-> SentFor(filePath)[i].files[filePath].type]

\* The invocations that concern uri, leaving out the change events without a
\* change record.
Invocations(uri) ==
    SelectSeq(handled,
        LAMBDA h : h.uri = uri /\ (h.kind = "change" => Len(h.contentChanges) > 0))

OverlayKind(kind) ==
    CASE kind = "open" -> "add" [] kind = "change" -> "change" [] kind = "close" -> "remove"

\* The handler has just been invoked (by an event or by its constructor).
Invoked == Len(handled') = Len(handled) + 1

\* The invocation that has just happened.
Latest == handled'[Len(handled')]

\* ------------------------------------------------------------------ claims

\* C1: for every analyzable document, the overlay requests passed to
\* analysisUpdateContent for it are exactly one per open, non-empty change and
\* close handled for it, of kind add, change and remove respectively, in the
\* order the invocations happened; every request carries one overlay, for an
\* analyzable document.
C1_OneOverlayPerEventInOrder ==
    /\ \A uri \in Analyzable :
           KindsSent(fsPath(uri)) =
               [i \in 1..Len(Invocations(uri)) |-> OverlayKind(Invocations(uri)[i].kind)]
    /\ \A i \in 1..Len(sent) :
           \E uri \in Analyzable : DOMAIN sent[i].files = {fsPath(uri)}

\* C1 witness: open, change, close events on one analyzable document gave add,
\* change, remove.
C1_Witness ==
    /\ Len(handled) = 3
    /\ \A i \in 1..3 : handled[i].uri = "main" /\ handled[i].via = "event"
    /\ handled[1].kind = "open" /\ handled[1].getText = <<"a">>
    /\ handled[2].kind = "change"
    /\ handled[2].contentChanges = <<ChangeRecord(1, 0, <<"b">>)>>
    /\ handled[3].kind = "close"
    /\ KindsSent(fsPath("main")) = <<"add", "change", "remove">>

\* C2: for every analyzable document, replaying the edits of the change
\* overlays emitted for it, in emission order and each overlay's edits one
\* after the other, against the text the document had before the first change
\* event gives the editor's current text.
C2_ReplayReproducesText ==
    \A uri \in Analyzable :
        ReplayChanges(text0[uri], SentFor(fsPath(uri)), fsPath(uri)) = text[uri]

\* C2 witness: two change events on one document, one of them with two
\* records, have changed its text.
C2_Witness ==
    \E uri \in Analyzable :
        LET changes == SelectSeq(SentFor(fsPath(uri)),
                                 LAMBDA r : r.files[fsPath(uri)].type = "change")
        IN  /\ Len(changes) >= 2
            /\ \E i \in 1..Len(changes) : Len(changes[i].files[fsPath(uri)].edits) = 2
            /\ text[uri] # text0[uri]

\* No invocation handled so far was an open of uri.
NeverOpened(uri) ==
    \A i \in 1..Len(handled) : ~(handled[i].uri = uri /\ handled[i].kind = "open")

\* sent[i] carries an overlay of this type for filePath.
IsOverlay(i, filePath, type) ==
    filePath \in DOMAIN sent[i].files /\ sent[i].files[filePath].type = type

\* The request that has just been passed to analysisUpdateContent.
Newest == sent'[Len(sent')]

\* C3: a change event for an analyzable document whose open was never handled
\* is treated as an implicit open: every change overlay passed for a path
\* comes after an add overlay for that path.
C3_ChangeImpliesEarlierAdd ==
    \A i \in 1..Len(sent) : \A uri \in Analyzable :
        IsOverlay(i, fsPath(uri), "change") =>
            \E j \in 1..(i - 1) : IsOverlay(j, fsPath(uri), "add")

\* C4 as claimed: handling a close for a document no open was handled for
\* passes no request to analysisUpdateContent.
C4_CloseNeverOpenedIsNoOp ==
    [][(Invoked /\ Latest.kind = "close" /\ NeverOpened(Latest.uri)) => sent' = sent]_vars

\* C4 as amended: handling a close for a document no open was handled for
\* passes exactly one request, a remove overlay for the document's path, when
\* the document is analyzable, and none otherwise; it shows no warning and
\* leaves filesWarnedAbout alone.
C4_CloseNeverOpenedEmitsRemove ==
    [][(Invoked /\ Latest.kind = "close" /\ NeverOpened(Latest.uri)) =>
          /\ IF Latest.uri \in Analyzable
             THEN sent' = Append(sent, [files |-> (fsPath(Latest.uri) :> [type |-> "remove"])])
             ELSE sent' = sent
          /\ UNCHANGED <<filesWarnedAbout, shown>>]_vars

\* C4 witness: the latest invocation closed an analyzable document that was
\* never opened, and a remove overlay for it went out.
C4_Witness ==
    /\ handled # <<>> /\ sent # <<>>
    /\ handled[Len(handled)].kind = "close"
    /\ handled[Len(handled)].uri \in Analyzable
    /\ NeverOpened(handled[Len(handled)].uri)
    /\ IsOverlay(Len(sent), fsPath(handled[Len(handled)].uri), "remove")

\* C5 as claimed: no two requests in flight carry an overlay for the same
\* document.
C5_OneInFlightPerDocument ==
    \A i \in inFlight : \A j \in inFlight :
        i # j => DOMAIN sent[i].files \cap DOMAIN sent[j].files = {}

\* C5 as amended: the overlay request of an event is issued in the step that
\* handles the event also while an earlier overlay request for the same
\* document is still in flight; the earlier ones stay in flight and the new
\* one joins them.
C5_IssuedWhileInFlight ==
    [][(/\ Invoked
        /\ Latest.uri \in Analyzable
        /\ (Latest.kind = "change" => Len(Latest.contentChanges) > 0)
        /\ \E k \in inFlight : fsPath(Latest.uri) \in DOMAIN sent[k].files)
       => /\ Len(sent') = Len(sent) + 1
          /\ SubSeq(sent', 1, Len(sent)) = sent
          /\ DOMAIN Newest.files = {fsPath(Latest.uri)}
          /\ inFlight' = inFlight \cup {Len(sent')}]_vars

\* C5 witness: two requests for the same document are in flight at once.
C5_Witness ==
    \E i \in inFlight : \E j \in inFlight :
        i < j /\ DOMAIN sent[i].files = DOMAIN sent[j].files

\* filePath holds a server overlay: an add was passed for it and no remove
\* after that add.
HoldsOverlay(filePath) ==
    \E i \in 1..Len(sent) :
        /\ IsOverlay(i, filePath, "add")
        /\ \A j \in (i + 1)..Len(sent) : ~IsOverlay(j, filePath, "remove")

\* C6: once the handler is constructed, the analyzable documents that hold a
\* server overlay are the analyzable documents open in the editor.
C6_OverlaysMatchOpenDocuments ==
    pc = "ready" =>
        {uri \in Analyzable : HoldsOverlay(fsPath(uri))} = textDocuments \cap Analyzable

\* C7: handling an open of an analyzable document passes exactly one request,
\* whose only entry is an add overlay under the document's path with the
\* document's full current text.
C7_OpenEmitsAddWithFullText ==
    [][(Invoked /\ Latest.kind = "open" /\ Latest.uri \in Analyzable) =>
          sent' = Append(sent,
                     [files |-> (fsPath(Latest.uri) :>
                                    [type |-> "add", content |-> text'[Latest.uri]])])]_vars

\* C7 witness: an open event for an analyzable document with a text that was
\* edited before gave an add overlay carrying that text.
C7_Witness ==
    /\ handled # <<>> /\ sent # <<>>
    /\ handled[Len(handled)].kind = "open"
    /\ handled[Len(handled)].via = "event"
    /\ handled[Len(handled)].uri \in Analyzable
    /\ text[handled[Len(handled)].uri] # text0[handled[Len(handled)].uri]
    /\ text[handled[Len(handled)].uri] # <<>>
    /\ IsOverlay(Len(sent), fsPath(handled[Len(handled)].uri), "add")

\* C8: handling a change event with n >= 1 records for an analyzable document
\* passes exactly one request, whose only entry is a change overlay with n
\* edits, the i-th with the offset, length and replacement of the i-th record.
C8_ChangeEmitsEditsInOrder ==
    [][(Invoked /\ Latest.kind = "change" /\ Latest.uri \in Analyzable
            /\ Len(Latest.contentChanges) >= 1) =>
          /\ Len(sent') = Len(sent) + 1
          /\ SubSeq(sent', 1, Len(sent)) = sent
          /\ DOMAIN Newest.files = {fsPath(Latest.uri)}
          /\ LET overlay == Newest.files[fsPath(Latest.uri)]
                 records == Latest.contentChanges
             IN  /\ overlay.type = "change"
                 /\ Len(overlay.edits) = Len(records)
                 /\ \A i \in 1..Len(records) :
                        /\ overlay.edits[i].offset = records[i].rangeOffset
                        /\ overlay.edits[i].length = records[i].rangeLength
                        /\ overlay.edits[i].replacement = records[i].text]_vars

\* C8 witness: a change event with two records that differ in offset, length
\* and text gave one change overlay with two edits.
C8_Witness ==
    /\ Len(handled) = 1 /\ Len(sent) = 1
    /\ handled[1].kind = "change"
    /\ Len(handled[1].contentChanges) = 2
    /\ handled[1].contentChanges[1].rangeOffset # handled[1].contentChanges[2].rangeOffset
    /\ handled[1].contentChanges[1].rangeLength # handled[1].contentChanges[2].rangeLength
    /\ handled[1].contentChanges[1].text # handled[1].contentChanges[2].text
    /\ IsOverlay(1, fsPath(handled[1].uri), "change")
    /\ Len(sent[1].files[fsPath(handled[1].uri)].edits) = 2

\* C9: handling a change event without a change record passes no request,
\* shows no warning and leaves filesWarnedAbout unchanged.
C9_EmptyChangeIsNoOp ==
    [][(Invoked /\ Latest.kind = "change" /\ Len(Latest.contentChanges) = 0) =>
          UNCHANGED <<sent, inFlight, shown, filesWarnedAbout>>]_vars

\* C9 witness: a change event without a record was handled for an analyzable
\* document outside the workspace, with the warning enabled and not yet shown
\* for it, and nothing was sent or shown.
C9_Witness ==
    /\ handled # <<>>
    /\ handled[Len(handled)].kind = "change"
    /\ handled[Len(handled)].contentChanges = <<>>
    /\ handled[Len(handled)].uri = "ext"
    /\ warnSetting
    /\ filesWarnedAbout = {} /\ shown = <<>> /\ sent = <<>>

\* C10: handling an open, a change or a close of a document that is not
\* analyzable passes no request, shows no warning and leaves the handler's
\* state unchanged.
C10_NonAnalyzableIgnored ==
    [][(Invoked /\ Latest.uri \notin Analyzable) =>
          UNCHANGED <<sent, inFlight, shown, filesWarnedAbout, listening>>]_vars

\* C10 witness: an open, a non-empty change and a close of a non-analyzable
\* document outside the workspace were handled with the warning enabled, and
\* nothing was sent or shown.
C10_Witness ==
    /\ Len(handled) = 3
    /\ \A i \in 1..3 : handled[i].uri = "notes"
    /\ handled[1].kind = "open"
    /\ handled[2].kind = "change" /\ handled[2].contentChanges # <<>>
    /\ handled[3].kind = "close"
    /\ warnSetting
    /\ sent = <<>> /\ shown = <<>> /\ filesWarnedAbout = {}

\* C11: handling a close of an analyzable document passes a remove overlay for
\* its path and leaves no state for that path in the handler: the path is not
\* in filesWarnedAbout after the close.
C11_CloseDropsBookkeeping ==
    [][(Invoked /\ Latest.kind = "close" /\ Latest.uri \in Analyzable) =>
          /\ sent' = Append(sent, [files |-> (fsPath(Latest.uri) :> [type |-> "remove"])])
          /\ fsPath(Latest.uri) \notin filesWarnedAbout']_vars

\* The add overlays passed for filePath.
AddsFor(filePath) == {i \in 1..Len(sent) : IsOverlay(i, filePath, "add")}

\* C17: when the constructor returns, every analyzable document that was open
\* has been passed exactly one add overlay, with its full text, nothing else
\* has been passed, and the listeners were registered when the first of the
\* already-open documents was handled.
C17_ConstructorAddsOpenDocuments ==
    [][/\ (pc = "ctor" /\ pc' = "ready") =>
             /\ \A uri \in textDocuments \cap Analyzable :
                    /\ Cardinality(AddsFor(fsPath(uri))) = 1
                    /\ \A i \in AddsFor(fsPath(uri)) :
                           sent[i].files[fsPath(uri)].content = text[uri]
             /\ Len(sent) = Cardinality(textDocuments \cap Analyzable)
       /\ (Invoked /\ Latest.via = "constructor") => listening]_vars

\* C17 witness: the constructor has returned after handling two analyzable
\* documents with a non-empty text and one document that is not analyzable.
C17_Witness ==
    /\ pc = "ready"
    /\ textDocuments = Docs
    /\ Len(handled) = 3
    /\ \A i \in 1..3 : handled[i].via = "constructor"
    /\ Len(sent) = 2
    /\ text["main"] # <<>>

\* ------------------------------------------------------- deferred functions
\* Most callbacks registered in one run.
MaxCallbacks == 3
\* Most runs of the hook in one run.
MaxHooks == 2

\* What a callback does when it is called: return (or resolve), throw (or
\* reject with) an Error, throw (or reject with) a falsy value.
Behaviours == {"returns", "throws Error", "throws undefined"}

Callback(id, behaviour) == [id |-> id, behaviour |-> behaviour]

Throws(d) == d.behaviour # "returns"

\* The value await d(...) throws.
Thrown(d) == IF d.behaviour = "throws Error" THEN ErrorFrom(d.id) ELSE Undefined

\* defer(callback)
defer(callback) ==
    /\ callbackCount < MaxCallbacks
    /\ deferredItems' = Append(deferredItems, callback)
    /\ registered' = Append(registered, [callback |-> callback, list |-> "defer"])
    /\ callbackCount' = callbackCount + 1
    /\ UNCHANGED <<deferredToLastItems, hookPc, queue, firstError, hookResult, ran,
                   hooksDone>>

\* deferUntilLast(callback)
deferUntilLast(callback) ==
    /\ callbackCount < MaxCallbacks
    /\ deferredToLastItems' = Append(deferredToLastItems, callback)
    /\ registered' = Append(registered, [callback |-> callback, list |-> "last"])
    /\ callbackCount' = callbackCount + 1
    /\ UNCHANGED <<deferredItems, hookPc, queue, firstError, hookResult, ran, hooksDone>>

\* if (firstError) throw firstError;
HookOutcome(error) ==
    IF Truthy(error) THEN [threw |-> TRUE, error |-> error] ELSE NoResult

\* The hook starts: let firstError; the for loop takes the array that
\* _.concat(deferredItems, deferredToLastItems) returns.  With nothing
\* registered the hook has no await and ends in the same step.
AfterEachBegins ==
    /\ hookPc \in {"idle", "done"}
    /\ hooksDone < MaxHooks
    /\ firstError' = Undefined
    /\ ran' = <<>>
    /\ IF deferredItems \o deferredToLastItems = <<>>
       THEN /\ hookPc' = "done"
            /\ hookResult' = HookOutcome(Undefined)
            /\ hooksDone' = hooksDone + 1
            /\ UNCHANGED queue
       ELSE /\ hookPc' = "running"
            /\ queue' = deferredItems \o deferredToLastItems
            /\ UNCHANGED <<hookResult, hooksDone>>
    /\ UNCHANGED <<deferredItems, deferredToLastItems, registered, callbackCount>>

\* One round of the for loop: try { await d(...) } catch (e) { firstError = firstError || e }
RunDeferred ==
    /\ hookPc = "running"
    /\ queue # <<>>
    /\ ran' = Append(ran, Head(queue))
    /\ queue' = Tail(queue)
    /\ firstError' = IF Throws(Head(queue)) /\ ~Truthy(firstError)
                      THEN Thrown(Head(queue))
                      ELSE firstError
    /\ UNCHANGED <<deferredItems, deferredToLastItems, hookPc, hookResult, registered,
                   callbackCount, hooksDone>>

\* After the loop: both lists are cleared, then firstError is thrown if set.
AfterEachEnds ==
    /\ hookPc = "running"
    /\ queue = <<>>
    /\ deferredItems' = <<>>
    /\ deferredToLastItems' = <<>>
    /\ hookResult' = HookOutcome(firstError)
    /\ hookPc' = "done"
    /\ registered' = <<>>
    /\ hooksDone' = hooksDone + 1
    /\ UNCHANGED <<queue, firstError, ran, callbackCount>>

InitDeferred ==
    NoHandler /\ NoDeferred /\ NoWaiting /\ NoAnalysis /\ NoRequests /\ NoTiming

NextDeferred ==
    \/ \E b \in Behaviours : defer(Callback(callbackCount + 1, b)) /\ UNCHANGED deferOthers
    \/ \E b \in Behaviours :
           deferUntilLast(Callback(callbackCount + 1, b)) /\ UNCHANGED deferOthers
    \/ AfterEachBegins /\ UNCHANGED deferOthers
    \/ RunDeferred /\ UNCHANGED deferOthers
    \/ AfterEachEnds /\ UNCHANGED deferOthers

SpecDeferred == InitDeferred /\ [][NextDeferred]_vars

\* A run of the hook ends in this step.
HookEnds == hooksDone' = hooksDone + 1

\* The callbacks registered with the given function, in registration order.
RegisteredWith(list) ==
    LET picked == SelectSeq(registered, LAMBDA r : r.list = list)
    IN  [i \in 1..Len(picked) |-> picked[i].callback]

\* The values thrown by the callbacks of a sequence, in order.
ThrownBy(callbacks) ==
    LET throwing == SelectSeq(callbacks, Throws)
    IN  [i \in 1..Len(throwing) |-> Thrown(throwing[i])]

\* C18: when a run of the hook ends, it has run every callback registered
\* since the run before, each once: those passed to defer in registration
\* order, then those passed to deferUntilLast in registration order; and both
\* lists are empty.
C18_HookRunsEveryCallbackOnce ==
    [][HookEnds =>
          /\ ran' = RegisteredWith("defer") \o RegisteredWith("last")
          /\ deferredItems' = <<>>
          /\ deferredToLastItems' = <<>>]_vars

\* C19: when a run of the hook ends, it throws the value thrown by the first
\* callback that threw, if any callback threw, and completes without error
\* otherwise; by then the loop has taken every callback and the lists are
\* cleared.
C19_HookRethrowsFirstError ==
    [][HookEnds =>
          /\ hookResult' = IF ThrownBy(ran') # <<>>
                            THEN [threw |-> TRUE, error |-> ThrownBy(ran')[1]]
                            ELSE NoResult
          /\ queue' = <<>>
          /\ deferredItems' = <<>>
          /\ deferredToLastItems' = <<>>]_vars

\* ------------------------------------------------------------------ waitFor
\* Largest value of the parameter milliseconds.
MaxMilliseconds == 45

\* The delay of the timer between two calls of action, in milliseconds.
PollInterval == 20

\* What one call of action() gives: a truthy value, a falsy one, or an error.
Answers == {"true", "false", "throws"}

\* waitFor(action, message, milliseconds, throwOnFailure) is called:
\* let timeRemaining = milliseconds.
InitWaitFor ==
    /\ NoHandler
    /\ NoDeferred
    /\ NoAnalysis
    /\ NoRequests
    /\ NoTiming
    /\ milliseconds \in (0 - PollInterval)..MaxMilliseconds
    /\ throwOnFailure \in BOOLEAN
    /\ timeRemaining = milliseconds
    /\ waitPc = "loop"
    /\ waitResult = "none"
    /\ answers = <<>>

\* while (timeRemaining > 0) { if (action()) return; await <timer>
Poll(answer) ==
    /\ waitPc = "loop"
    /\ timeRemaining > 0
    /\ answers' = Append(answers, answer)
    /\ CASE answer = "true"   -> waitPc' = "returned" /\ waitResult' = "returned"
         [] answer = "false"  -> waitPc' = "sleeping" /\ UNCHANGED waitResult
         [] answer = "throws" -> waitPc' = "threw" /\ waitResult' = "error of action"
    /\ UNCHANGED <<milliseconds, throwOnFailure, timeRemaining>>

\* The timer that counts down by half the delay it waited.
TimerFires_SlowCountdown ==
    /\ waitPc = "sleeping"
    /\ timeRemaining' = timeRemaining - (PollInterval \div 2)
    /\ waitPc' = "loop"
    /\ UNCHANGED <<milliseconds, throwOnFailure, waitResult, answers>>

\* The timer of setTimeout(resolve, 20) fires: timeRemaining -= 20.
TimerFires ==
    /\ waitPc = "sleeping"
    /\ timeRemaining' = timeRemaining - PollInterval
    /\ waitPc' = "loop"
    /\ UNCHANGED <<milliseconds, throwOnFailure, waitResult, answers>>

\* The loop is left with timeRemaining <= 0: if (throwOnFailure) throw new Error(...)
GiveUp ==
    /\ waitPc = "loop"
    /\ timeRemaining <= 0
    /\ IF throwOnFailure
       THEN waitPc' = "threw" /\ waitResult' = "Action didn't return true within specified timeout"
       ELSE waitPc' = "returned" /\ waitResult' = "returned"
    /\ UNCHANGED <<milliseconds, throwOnFailure, timeRemaining, answers>>

NextWaitFor ==
    \/ \E answer \in Answers : Poll(answer) /\ UNCHANGED waitOthers
    \/ TimerFires /\ UNCHANGED waitOthers
    \/ GiveUp /\ UNCHANGED waitOthers

\* action() returns and the timer fires: every step of the call is taken in
\* the end.
SpecWaitFor == InitWaitFor /\ [][NextWaitFor]_vars /\ WF_vars(NextWaitFor)

\* ceil(a / b) for b > 0
Ceil(a, b) == (a + b - 1) \div b

WaitForEnded == waitPc \in {"returned", "threw"}

\* C20: a call of waitFor ends; it calls action at most ceil(milliseconds / 20)
\* times and not at all when milliseconds <= 0; it returns in the step in
\* which action() gives true; and when it ends with no call of action having
\* given true or thrown, it has thrown exactly if throwOnFailure is set, with
\* the budget used up.
C20_WaitForTerminates ==
    /\ [](Len(answers) <= IF milliseconds <= 0 THEN 0 ELSE Ceil(milliseconds, PollInterval))
    /\ []((WaitForEnded /\ \A i \in 1..Len(answers) : answers[i] = "false") =>
             /\ (waitPc = "threw") = throwOnFailure
             /\ Len(answers) = IF milliseconds <= 0 THEN 0
                                ELSE Ceil(milliseconds, PollInterval))
    /\ [][(Len(answers') = Len(answers) + 1 /\ answers'[Len(answers')] = "true") =>
             (waitPc' = "returned" /\ waitResult' = "returned")]_vars
    /\ <>WaitForEnded

\* C20 witness: a call with a budget of more than two timer delays and
\* throwOnFailure set has thrown after three calls of action that gave false.
C20_Witness ==
    /\ milliseconds > 2 * PollInterval
    /\ throwOnFailure
    /\ waitPc = "threw"
    /\ answers = <<"false", "false", "false">>

\* ---------------------------------------------------------- analysis rounds
\* Most analysis rounds the server starts in one run.
MaxRounds == 3
\* Most calls of waitForNextAnalysis in one run.
MaxWaits == 2

\* A token as handed out now.  A current-analysis token is resolved at once
\* when the server is idle; a next-analysis token never is.
Token(kind) ==
    [kind |-> kind, startedAtRequest |-> started, busy |-> isAnalyzing,
     resolved |-> (kind = "current" /\ ~isAnalyzing)]

\* extApi.currentAnalysis()
currentAnalysis == Token("current")

\* extApi.nextAnalysis()
nextAnalysis == Token("next")

\* Whether the analysis-finished event of the running round resolves token:
\* a current-analysis token was handed out during that round; a next-analysis
\* token needs the round to have started after it was handed out.
ResolvedByFinish(token) ==
    \/ token.resolved
    \/ token.kind = "current"
    \/ token.kind = "next" /\ started > token.startedAtRequest

\* The server reports that analysis started.
AnalysisStarted ==
    /\ ~isAnalyzing
    /\ started < MaxRounds
    /\ isAnalyzing' = TRUE
    /\ started' = started + 1
    /\ UNCHANGED <<finished, tokens, acPc, acToken, wnPc, wnToken, wnCalled, wnCalls>>

\* The server reports that analysis finished.
AnalysisFinished ==
    /\ isAnalyzing
    /\ isAnalyzing' = FALSE
    /\ finished' = finished + 1
    /\ tokens' = [i \in 1..Len(tokens) |->
                     [tokens[i] EXCEPT !.resolved = ResolvedByFinish(tokens[i])]]
    /\ UNCHANGED <<started, acPc, acToken, wnPc, wnToken, wnCalled, wnCalls>>

\* activate(file), after the file is shown: await extApi.initialAnalysis
activate ==
    /\ acPc = "off"
    /\ acPc' = "awaitInitial"
    /\ UNCHANGED <<isAnalyzing, started, finished, tokens, acToken, wnPc, wnToken,
                   wnCalled, wnCalls>>

\* extApi.initialAnalysis resolves; activate goes on to await delay(200).
InitialAnalysisDone ==
    /\ acPc = "awaitInitial"
    /\ acPc' = "delay"
    /\ UNCHANGED <<isAnalyzing, started, finished, tokens, acToken, wnPc, wnToken,
                   wnCalled, wnCalls>>

\* The delay is over: await extApi.currentAnalysis()
DelayDone ==
    /\ acPc = "delay"
    /\ tokens' = Append(tokens, currentAnalysis)
    /\ acToken' = Len(tokens) + 1
    /\ acPc' = "awaitCurrent"
    /\ UNCHANGED <<isAnalyzing, started, finished, wnPc, wnToken, wnCalled, wnCalls>>

\* activate that goes on without awaiting the token.
ActivateReady_NoAwait ==
    /\ acPc = "awaitCurrent"
    /\ acPc' = "ready"
    /\ UNCHANGED <<isAnalyzing, started, finished, tokens, acToken, wnPc, wnToken,
                   wnCalled, wnCalls>>

\* The awaited token has resolved: log("Ready to start test")
ActivateReady ==
    /\ acPc = "awaitCurrent"
    /\ tokens[acToken].resolved
    /\ acPc' = "ready"
    /\ UNCHANGED <<isAnalyzing, started, finished, tokens, acToken, wnPc, wnToken,
                   wnCalled, wnCalls>>

\* waitForNextAnalysis(action, timeoutSeconds) is called: await extApi.currentAnalysis.
\* The awaited value is the function extApi.currentAnalysis, not a promise it
\* returns, so the await is over at once, whatever the server is doing.
waitForNextAnalysis ==
    /\ wnPc \in {"idle", "returned", "timedOut"}
    /\ wnCalls < MaxWaits
    /\ wnCalls' = wnCalls + 1
    /\ wnCalled' = [started |-> started, busy |-> isAnalyzing]
    /\ wnPc' = "called"
    /\ UNCHANGED <<isAnalyzing, started, finished, tokens, acPc, acToken, wnToken>>

\* const nextAnalysis = extApi.nextAnalysis(); await action()
RunAction ==
    /\ wnPc = "called"
    /\ tokens' = Append(tokens, nextAnalysis)
    /\ wnToken' = Len(tokens) + 1
    /\ wnPc' = "acting"
    /\ UNCHANGED <<isAnalyzing, started, finished, acPc, acToken, wnCalled, wnCalls>>

\* action() is done: await withTimeout(nextAnalysis, ...)
ActionDone ==
    /\ wnPc = "acting"
    /\ wnPc' = "awaitNext"
    /\ UNCHANGED <<isAnalyzing, started, finished, tokens, acPc, acToken, wnToken,
                   wnCalled, wnCalls>>

\* waitForNextAnalysis that returns without awaiting the token.
AnalysisCompleted_NoAwait ==
    /\ wnPc = "awaitNext"
    /\ wnPc' = "returned"
    /\ UNCHANGED <<isAnalyzing, started, finished, tokens, acPc, acToken, wnToken,
                   wnCalled, wnCalls>>

\* The token won the race of withTimeout: waitForNextAnalysis returns.
AnalysisCompleted ==
    /\ wnPc = "awaitNext"
    /\ tokens[wnToken].resolved
    /\ wnPc' = "returned"
    /\ UNCHANGED <<isAnalyzing, started, finished, tokens, acPc, acToken, wnToken,
                   wnCalled, wnCalls>>

\* The timer won the race of withTimeout: waitForNextAnalysis throws.
AnalysisTimedOut ==
    /\ wnPc = "awaitNext"
    /\ ~tokens[wnToken].resolved
    /\ wnPc' = "timedOut"
    /\ UNCHANGED <<isAnalyzing, started, finished, tokens, acPc, acToken, wnToken,
                   wnCalled, wnCalls>>

InitAnalysis ==
    NoHandler /\ NoDeferred /\ NoWaiting /\ NoAnalysis /\ NoRequests /\ NoTiming

NextAnalysis ==
    \/ AnalysisStarted /\ UNCHANGED analysisOthers
    \/ AnalysisFinished /\ UNCHANGED analysisOthers
    \/ activate /\ UNCHANGED analysisOthers
    \/ InitialAnalysisDone /\ UNCHANGED analysisOthers
    \/ DelayDone /\ UNCHANGED analysisOthers
    \/ ActivateReady /\ UNCHANGED analysisOthers
    \/ waitForNextAnalysis /\ UNCHANGED analysisOthers
    \/ RunAction /\ UNCHANGED analysisOthers
    \/ ActionDone /\ UNCHANGED analysisOthers
    \/ AnalysisCompleted /\ UNCHANGED analysisOthers
    \/ AnalysisTimedOut /\ UNCHANGED analysisOthers

SpecAnalysis == InitAnalysis /\ [][NextAnalysis]_vars

\* A token is handed out in this step.
HandedOut(kind) == Len(tokens') = Len(tokens) + 1 /\ tokens'[Len(tokens')].kind = kind

\* C12: a next-analysis token is unresolved when handed out and resolves only
\* in an analysis-finished step of a round that started after the token was
\* requested; and waitForNextAnalysis returns only with its token resolved,
\* when a round that started after the call has finished.
C12_NextTokenNeedsFullRound ==
    [][/\ HandedOut("next") => ~tokens'[Len(tokens')].resolved
       /\ \A i \in 1..Len(tokens) :
              (tokens[i].kind = "next" /\ ~tokens[i].resolved /\ tokens'[i].resolved) =>
                  /\ isAnalyzing /\ finished' = finished + 1
                  /\ started > tokens[i].startedAtRequest
       /\ (wnPc = "awaitNext" /\ wnPc' = "returned") =>
              /\ tokens[wnToken].kind = "next"
              /\ tokens[wnToken].resolved
              /\ finished > wnCalled.started]_vars

\* C12 witness: waitForNextAnalysis, called and given its token while a round
\* was running, has returned after a later round finished.
C12_Witness ==
    /\ wnPc = "returned"
    /\ wnCalled.busy
    /\ tokens[wnToken].busy
    /\ tokens[wnToken].resolved
    /\ finished > tokens[wnToken].startedAtRequest

\* C15: a current-analysis token handed out while the server is idle is
\* resolved at once; one handed out while the server is busy stays unresolved
\* as long as that round runs and resolves in its analysis-finished step; and
\* activate gets to "Ready to start test" only with its token resolved.
C15_CurrentTokenAndActivate ==
    [][/\ HandedOut("current") => (tokens'[Len(tokens')].resolved <=> ~isAnalyzing)
       /\ \A i \in 1..Len(tokens) :
              (tokens[i].kind = "current" /\ ~tokens[i].resolved) =>
                  /\ tokens[i].busy /\ isAnalyzing
                  /\ started = tokens[i].startedAtRequest
                  /\ tokens'[i].resolved <=> finished' = finished + 1
       /\ (acPc = "awaitCurrent" /\ acPc' = "ready") =>
              /\ tokens[acToken].kind = "current"
              /\ tokens[acToken].resolved]_vars

\* C15 witness: activate is ready after awaiting a token it was given while a
\* round was running; that round has finished.
C15_Witness ==
    /\ acPc = "ready"
    /\ tokens[acToken].busy
    /\ tokens[acToken].resolved
    /\ finished >= tokens[acToken].startedAtRequest

\* C16: waitForNextAnalysis does not request its token and start the action
\* while the round that was running when it was called is still running.
C16_ActionWaitsForRunningRound ==
    [][(wnPc = "called" /\ wnPc' = "acting") =>
          ~(wnCalled.busy /\ isAnalyzing /\ started = wnCalled.started)]_vars

\* ------------------------------------------------------- request correlator
\* Most requests sent in one run.
MaxRequests == 3

\* What a response carries: a result or an error.
Payloads == {"result", "error"}

\* The settlement of request id with outcome, as logged, with its cause.
Settle(id, outcome, by) == [id |-> id, outcome |-> outcome, by |-> by]

\* send(method, params): the request gets a fresh id and is pending; with the
\* session torn down it fails at once.
send ==
    /\ nextId <= MaxRequests
    /\ nextId' = nextId + 1
    /\ IF transport = "open"
       THEN pending' = pending \cup {nextId} /\ UNCHANGED settled
       ELSE settled' = Append(settled, Settle(nextId, "Unavailable", "send")) /\ UNCHANGED pending
    /\ UNCHANGED <<transport, responses, answered, ignored>>

\* The server writes its response to a request it has read.
ServerResponds(id, payload) ==
    /\ transport = "open"
    /\ id \in 1..(nextId - 1)
    /\ id \notin answered
    /\ answered' = answered \cup {id}
    /\ responses' = responses \cup {[id |-> id, payload |-> payload]}
    /\ UNCHANGED <<transport, nextId, pending, settled, ignored>>

\* Reading a response that settles the request of its id without looking it
\* up among the pending ones.
Receive_NoLookup(response) ==
    /\ response \in responses
    /\ responses' = responses \ {response}
    /\ pending' = pending \ {response.id}
    /\ settled' = Append(settled,
           Settle(response.id,
                  IF response.payload = "error" THEN "ServerError" ELSE "Resolved",
                  "response"))
    /\ UNCHANGED <<transport, nextId, answered, ignored>>

\* A response is read: it settles the pending request with its id; without
\* one, or after the stream closed, it is discarded.
Receive(response) ==
    /\ response \in responses
    /\ responses' = responses \ {response}
    /\ IF transport = "open" /\ response.id \in pending
       THEN /\ pending' = pending \ {response.id}
            /\ settled' = Append(settled,
                   Settle(response.id,
                          IF response.payload = "error" THEN "ServerError" ELSE "Resolved",
                          "response"))
            /\ UNCHANGED ignored
       ELSE /\ ignored' = ignored \cup {response}
            /\ UNCHANGED <<pending, settled>>
    /\ UNCHANGED <<transport, nextId, answered>>

\* No response within the request's window.
Timeout(id) ==
    /\ id \in pending
    /\ pending' = pending \ {id}
    /\ settled' = Append(settled, Settle(id, "Timeout", "timeout"))
    /\ UNCHANGED <<transport, nextId, responses, answered, ignored>>

\* The originator cancels the request: local bookkeeping only.
Cancel(id) ==
    /\ id \in pending
    /\ pending' = pending \ {id}
    /\ settled' = Append(settled, Settle(id, "Cancelled", "cancel"))
    /\ UNCHANGED <<transport, nextId, responses, answered, ignored>>

\* The pending requests in the order of their ids.
RECURSIVE InOrder(_)
InOrder(ids) ==
    IF ids = {} THEN <<>>
    ELSE LET first == CHOOSE i \in ids : \A j \in ids : i <= j
         IN  <<first>> \o InOrder(ids \ {first})

\* A closure that leaves the pending requests as they are.
TransportCloses_KeepsPending ==
    /\ transport = "open"
    /\ transport' = "closed"
    /\ UNCHANGED <<nextId, pending, responses, answered, settled, ignored>>

\* The process exits or the stream closes: every pending request is rejected.
TransportCloses ==
    /\ transport = "open"
    /\ transport' = "closed"
    /\ settled' = settled \o [i \in 1..Cardinality(pending) |->
                                  Settle(InOrder(pending)[i], "Cancelled", "closure")]
    /\ pending' = {}
    /\ UNCHANGED <<nextId, responses, answered, ignored>>

InitRequests ==
    NoHandler /\ NoDeferred /\ NoWaiting /\ NoAnalysis /\ NoRequests /\ NoTiming

NextRequests ==
    \/ send /\ UNCHANGED requestOthers
    \/ \E id \in 1..MaxRequests : \E payload \in Payloads :
           ServerResponds(id, payload) /\ UNCHANGED requestOthers
    \/ \E response \in responses : Receive(response) /\ UNCHANGED requestOthers
    \/ \E id \in pending : Timeout(id) /\ UNCHANGED requestOthers
    \/ \E id \in pending : Cancel(id) /\ UNCHANGED requestOthers
    \/ TransportCloses /\ UNCHANGED requestOthers

SpecRequests == InitRequests /\ [][NextRequests]_vars

\* The logged settlements of request id.
SettlementsOf(id) == SelectSeq(settled, LAMBDA e : e.id = id)

\* C13: every request sent is either pending and not settled, or not pending
\* and settled exactly once, whatever the order of responses, timeouts,
\* cancellations and the closure; and a response, a timeout or a cancellation
\* that settles one request logs that one settlement only and leaves every
\* other pending request pending.
C13_SettledExactlyOnce ==
    [][/\ \A id \in 1..(nextId' - 1) :
              /\ Len(SettlementsOf(id)') <= 1
              /\ (id \in pending') <=> (SettlementsOf(id)' = <<>>)
       /\ \A id \in pending :
              (id \notin pending' /\ transport' = transport) =>
                  /\ pending' = pending \ {id}
                  /\ Len(settled') = Len(settled) + 1
                  /\ SubSeq(settled', 1, Len(settled)) = settled
                  /\ settled'[Len(settled')].id = id]_vars

\* C13 witness: three requests were pending together and were settled in
\* another order than they were sent, by a timeout, a response and a
\* cancellation, and the late response to the timed-out request was discarded.
C13_Witness ==
    /\ Len(settled) = 3
    /\ settled[1].id = 2 /\ settled[1].by = "timeout"
    /\ settled[2].id = 3 /\ settled[2].by = "response"
    /\ settled[3].id = 1 /\ settled[3].by = "cancel"
    /\ \E r \in ignored : r.id = 2

\* C14: the step in which the stream closes rejects every pending request
\* with Unavailable or Cancelled and leaves none pending; and a response read
\* after the closure settles nothing: it is discarded.
C14_ClosureRejectsPending ==
    [][/\ (transport = "open" /\ transport' = "closed") =>
              /\ pending' = {}
              /\ \A id \in pending :
                     \E i \in (Len(settled) + 1)..Len(settled') :
                         /\ settled'[i].id = id
                         /\ settled'[i].outcome \in {"Unavailable", "Cancelled"}
       /\ (transport = "closed" /\ responses' # responses) =>
              /\ settled' = settled
              /\ pending' = pending
              /\ ignored' = ignored \cup (responses \ responses')]_vars

\* C14 witness: the stream closed with three requests pending, all three were
\* rejected by the closure, and a response to one of them that was read after
\* the closure was discarded.
C14_Witness ==
    /\ transport = "closed"
    /\ Len(settled) = 3
    /\ \A i \in 1..3 : settled[i].by = "closure" /\ settled[i].outcome = "Cancelled"
    /\ ignored # {}

\* C23: the warning is shown at most once for a file path; it is shown only
\* while handling a change event with at least one record for an analyzable
\* document outside the workspace, with the warn setting on; and the step that
\* shows it also passes that event's change overlay.
C23_WarnedOncePerPath ==
    [][/\ \A i \in 1..Len(shown') : \A j \in 1..Len(shown') :
              shown'[i] = shown'[j] => i = j
       /\ shown' # shown =>
              /\ Invoked
              /\ Latest.kind = "change"
              /\ Len(Latest.contentChanges) > 0
              /\ Latest.uri \in Analyzable
              /\ ~isWithinWorkspace(fsPath(Latest.uri))
              /\ warnSetting
              /\ shown' = Append(shown, fsPath(Latest.uri))
              /\ sent' = Append(sent,
                     [files |-> (fsPath(Latest.uri) :>
                         [type |-> "change",
                          edits |-> Newest.files[fsPath(Latest.uri)].edits])])
              /\ Len(Newest.files[fsPath(Latest.uri)].edits) = Len(Latest.contentChanges)]_vars

\* C23 witness: with the warn setting on, two change events with a record
\* were handled for the same file outside the workspace; the warning was
\* shown once and both change overlays were passed.
C23_Witness ==
    /\ warnSetting
    /\ Len(handled) >= 2
    /\ \A i \in 1..2 :
           /\ handled[i].uri = "ext"
           /\ handled[i].kind = "change"
           /\ handled[i].contentChanges # <<>>
    /\ shown = <<fsPath("ext")>>
    /\ Len(sent) >= 2
    /\ IsOverlay(1, fsPath("ext"), "change")
    /\ IsOverlay(2, fsPath("ext"), "change")

\* ------------------------------------------------------------------- tryFor
\* What one invocation of action does: complete, or throw (or reject).
Outcomes == {"completes", "throws"}

\* One invocation as logged: the error it throws is named by its number.
Attempt(outcome, place) == [outcome |-> outcome, place |-> place]

\* tryFor(action, milliseconds) is called: let timeRemaining = milliseconds.
InitTryFor ==
    /\ NoHandler
    /\ NoDeferred
    /\ NoWaiting
    /\ NoAnalysis
    /\ NoRequests
    /\ NoRace
    /\ tryMilliseconds \in (0 - PollInterval)..MaxMilliseconds
    /\ tryRemaining = tryMilliseconds
    /\ tryPc = "loop"
    /\ tryResult = TryResult("none", 0)
    /\ attempts = <<>>

\* while (timeRemaining > 0) { try { await action(); return; } catch { } await <timer>
Try(outcome) ==
    /\ tryPc = "loop"
    /\ tryRemaining > 0
    /\ attempts' = Append(attempts, Attempt(outcome, "loop"))
    /\ IF outcome = "completes"
       THEN tryPc' = "returned" /\ tryResult' = TryResult("returned", 0)
       ELSE tryPc' = "sleeping" /\ UNCHANGED tryResult
    /\ UNCHANGED <<tryMilliseconds, tryRemaining>>

\* The timer of setTimeout(resolve, 20) fires: timeRemaining -= 20.
TryAgain ==
    /\ tryPc = "sleeping"
    /\ tryRemaining' = tryRemaining - PollInterval
    /\ tryPc' = "loop"
    /\ UNCHANGED <<tryMilliseconds, tryResult, attempts>>

\* The last invocation inside a try block that swallows its error, too.
LastTry_Swallows(outcome) ==
    /\ tryPc = "loop"
    /\ tryRemaining <= 0
    /\ attempts' = Append(attempts, Attempt(outcome, "last"))
    /\ tryPc' = "returned"
    /\ tryResult' = TryResult("returned", 0)
    /\ UNCHANGED <<tryMilliseconds, tryRemaining>>

\* After the loop: await action(), outside any try block.
LastTry(outcome) ==
    /\ tryPc = "loop"
    /\ tryRemaining <= 0
    /\ attempts' = Append(attempts, Attempt(outcome, "last"))
    /\ IF outcome = "completes"
       THEN tryPc' = "returned" /\ tryResult' = TryResult("returned", 0)
       ELSE tryPc' = "threw" /\ tryResult' = TryResult("threw", Len(attempts) + 1)
    /\ UNCHANGED <<tryMilliseconds, tryRemaining>>

NextTryFor ==
    \/ \E outcome \in Outcomes : Try(outcome) /\ UNCHANGED tryOthers
    \/ TryAgain /\ UNCHANGED tryOthers
    \/ \E outcome \in Outcomes : LastTry(outcome) /\ UNCHANGED tryOthers

SpecTryFor == InitTryFor /\ [][NextTryFor]_vars

\* The invocations the budget allows inside the loop.
Budget == IF tryMilliseconds <= 0 THEN 0 ELSE (tryMilliseconds + PollInterval - 1) \div PollInterval

\* C21: an invocation of action that completes ends the call with success in
\* the same step, so no invocation follows one that completed; the invocation
\* after the loop is made exactly when all the invocations the budget allows
\* have thrown, it is made once, and its outcome is the outcome of the call:
\* success if it completes, its own error if it throws.
C21_TryForOutcome ==
    [][Len(attempts') = Len(attempts) + 1 =>
          LET n == Len(attempts')
              latest == attempts'[n]
          IN  /\ \A i \in 1..(n - 1) :
                     attempts'[i].outcome = "throws" /\ attempts'[i].place = "loop"
              /\ n <= Budget + 1
              /\ (latest.place = "last") <=> (n = Budget + 1)
              /\ latest.outcome = "completes" =>
                     (tryPc' = "returned" /\ tryResult' = TryResult("returned", 0))
              /\ (latest.outcome = "throws" /\ latest.place = "loop") =>
                     (tryPc' = "sleeping" /\ tryResult' = TryResult("none", 0))
              /\ (latest.outcome = "throws" /\ latest.place = "last") =>
                     (tryPc' = "threw" /\ tryResult' = TryResult("threw", n))]_vars

\* C21 witness: with a budget of three invocations, all three threw, and the
\* invocation after the loop threw as well: the call threw that fourth error.
C21_Witness ==
    /\ Budget = 3
    /\ Len(attempts) = 4
    /\ attempts[4].place = "last"
    /\ tryPc = "threw"
    /\ tryResult = TryResult("threw", 4)

\* -------------------------------------------------------------- withTimeout
\* Largest value of the parameter seconds.
MaxSeconds == 2

\* seconds: number = 15
DefaultSeconds == 15

\* The texts passed as message.
Messages == {"Analysis did not complete", "Test did not complete"}

Resolved(value) == [state |-> "resolved", value |-> value]

Rejected(value) == [state |-> "rejected", value |-> value]

\* A settlement is offered to the promise Promise.race returned: it takes the
\* first one and ignores the later ones.
Offer(settlement) ==
    /\ reactions' = Append(reactions, settlement)
    /\ race' = IF race.state = "pending" THEN settlement ELSE race

\* What the promise passed in settles with.
Settlement(state) ==
    IF state = "resolved"
    THEN Resolved(Value("value of promise", "", 0))
    ELSE Rejected(Value("error of promise", "", 0))

\* Before the call: the promise passed in may be settled already.
InitWithTimeout ==
    /\ NoHandler
    /\ NoDeferred
    /\ NoWaiting
    /\ NoAnalysis
    /\ NoRequests
    /\ NoTrying
    /\ seconds = Unset
    /\ promiseState \in {"pending", "resolved", "rejected"}
    /\ timer = NoTimer
    /\ clock = 0
    /\ race = Pending
    /\ reactions = <<>>

\* withTimeout(promise, message, secs): Promise.race([promise, timeoutIn(message, secs)]).
\* timeoutIn sets its timer to seconds * 1000 ms, seconds being 15 when secs
\* is undefined.  A promise that is settled already reaches the race before
\* any timer callback runs.
withTimeout(message, secs) ==
    /\ timer.state = "none"
    /\ seconds' = secs
    /\ timer' = [state |-> "armed", msg |-> message,
                  secs |-> IF secs = Unset THEN DefaultSeconds ELSE secs]
    /\ IF promiseState = "pending"
       THEN UNCHANGED <<race, reactions>>
       ELSE Offer(Settlement(promiseState))
    /\ UNCHANGED <<promiseState, clock>>

\* A second passes.
Tick ==
    /\ timer.state = "armed"
    /\ clock < timer.secs
    /\ clock' = clock + 1
    /\ UNCHANGED <<seconds, promiseState, timer, race, reactions>>

\* The promise passed in settles.
PromiseSettles(state) ==
    /\ timer.state # "none"
    /\ promiseState = "pending"
    /\ promiseState' = state
    /\ Offer(Settlement(state))
    /\ UNCHANGED <<seconds, timer, clock>>

\* A timer callback that resolves instead of rejecting.
TimerExpires_Resolves ==
    /\ timer.state = "armed"
    /\ clock = timer.secs
    /\ timer' = [timer EXCEPT !.state = "fired"]
    /\ Offer(Resolved(Value("timeout", timer.msg, timer.secs)))
    /\ UNCHANGED <<seconds, promiseState, clock>>

\* The timer's callback runs: reject(new Error(`${msg} within ${seconds}s`)).
TimerExpires ==
    /\ timer.state = "armed"
    /\ clock = timer.secs
    /\ timer' = [timer EXCEPT !.state = "fired"]
    /\ Offer(Rejected(Value("timeout", timer.msg, timer.secs)))
    /\ UNCHANGED <<seconds, promiseState, clock>>

NextWithTimeout ==
    \/ \E message \in Messages : \E secs \in {Unset} \cup 0..MaxSeconds :
           withTimeout(message, secs) /\ UNCHANGED raceOthers
    \/ Tick /\ UNCHANGED raceOthers
    \/ \E state \in {"resolved", "rejected"} : PromiseSettles(state) /\ UNCHANGED raceOthers
    \/ TimerExpires /\ UNCHANGED raceOthers

SpecWithTimeout == InitWithTimeout /\ [][NextWithTimeout]_vars

\* What the timer of a call with this message and these seconds rejects with.
TimeoutError(message, secs) ==
    Rejected(Value("timeout", message, IF secs = Unset THEN DefaultSeconds ELSE secs))

\* C22: withTimeout settles with whichever happens first, the promise settling
\* or the timer firing after seconds (15 when undefined): the timer's outcome
\* is a rejection with an error carrying the message, never a resolution, and
\* once settled the returned promise never changes.
C22_FirstSettlementWins ==
    [][/\ race.state # "pending" => race' = race
       /\ race'.state = "pending" <=> reactions' = <<>>
       /\ reactions' # <<>> => race' = reactions'[1]
       /\ timer'.state = "fired" /\ timer.state # "fired" =>
              /\ clock = (IF seconds = Unset THEN DefaultSeconds ELSE seconds)
              /\ reactions' = Append(reactions, TimeoutError(timer.msg, seconds))
              /\ race' = IF reactions = <<>> THEN TimeoutError(timer.msg, seconds) ELSE race
       /\ promiseState' # promiseState =>
              /\ reactions' = Append(reactions, Settlement(promiseState'))
              /\ race' = IF reactions = <<>> THEN Settlement(promiseState') ELSE race]_vars

\* seconds undefined: the timer fired after 15 s and rejected the returned
\* promise, and the promise passed in resolved afterwards without effect.
C22_Witness ==
    /\ seconds = Unset
    /\ clock = DefaultSeconds
    /\ timer.state = "fired"
    /\ promiseState = "resolved"
    /\ Len(reactions) = 2
    /\ reactions[2] = Settlement("resolved")
    /\ race = TimeoutError(timer.msg, Unset)
    /\ race.state = "rejected"
    /\ race.value.msg \in Messages
    /\ race.value.secs = DefaultSeconds
====
